---- MODULE Spec2Model ----
(***************************************************************************)
(* A model of the PoE2 trade client: TradeClient (src/trade_client/        *)
(* client.py) and the entry point main (src/app.py).                       *)
(*                                                                         *)
(* The specifications share the variables:                                 *)
(*   PagerSpec  applies the pure function _build_pages to bounded inputs;  *)
(*   Spec       is one run of app.py's main: client.search (non-live),     *)
(*              then main's own pagination loop;                           *)
(*   LiveSpec   is several live sessions (_live_search) running            *)
(*              concurrently on one client;                                *)
(*   ClientSpec is a client used in either way: its behaviours are those   *)
(*              of Spec and those of LiveSpec.                             *)
(*   CallSpec   is a sequence of calls on one client, with the headers     *)
(*              _build_headers gives each, and the outcome of whisper;     *)
(*   RequestSpec is _request called by live sessions in parallel threads,  *)
(*              step by step;                                              *)
(*   StreamSpec is one live stream, its frames and the runs of on_message. *)
(*                                                                         *)
(* A result ID (a string in the program) is written as a positive          *)
(* integer; the hydrated listing the service returns for ID i (a JSON      *)
(* object in the program) is written as the negative integer -i.           *)
(***************************************************************************)
EXTENDS Integers, Sequences, FiniteSets, TLC

VARIABLES
    \* _build_pages under PagerSpec
    p_ids, p_width, p_pages, ppc,
    \* TradeClient._sess
    sess,
    \* main and _normal_search under Spec
    pc, ns_search_res, paged_ids, search_res, query_id, all_result_ids,
    page_idx, page_count, all_items, saved, outcome, log,
    \* _live_search under LiveSpec; last is the latest run of a message handler,
    \* closed_by is how a session's connection ended
    lpc, search_id, fetch_callback, issued, last, closed_by,
    \* header building and whisper under CallSpec
    default_headers, extras_default, built, w_last,
    \* _request called by concurrent live sessions under RequestSpec; sess_obj
    \* is the Session object self._sess refers to (0 for None)
    rpc, nreq, created, sess_obj, using,
    \* one live stream under StreamSpec: the frames arrived, the state of the
    \* handler's run for each, the frames the callback was called for
    frames, hst, callbacks, s_callback

pagerVars == <<p_ids, p_width, p_pages, ppc>>
mainVars == <<pc, ns_search_res, paged_ids, search_res, query_id, all_result_ids,
              page_idx, page_count, all_items, saved, outcome, log>>
liveVars == <<lpc, search_id, fetch_callback, issued, last, closed_by>>
callVars == <<default_headers, extras_default, built, w_last>>
reqVars == <<rpc, nreq, created, sess_obj, using>>
streamVars == <<frames, hst, callbacks, s_callback>>
vars == <<p_ids, p_width, p_pages, ppc, sess,
          pc, ns_search_res, paged_ids, search_res, query_id, all_result_ids,
          page_idx, page_count, all_items, saved, outcome, log,
          lpc, search_id, fetch_callback, issued, last, closed_by,
          default_headers, extras_default, built, w_last,
          rpc, nreq, created, sess_obj, using,
          frames, hst, callbacks, s_callback>>

----------------------------------------------------------------------------
(* Bounds of the model *)

\* longest ID list the service returns and the pager is applied to
MaxLen == 21

\* largest page width the pager is applied to
MaxWidth == 11

\* number of concurrent live sessions
NumSessions == 2

\* longest ID list of a live "new" notification
MaxNew == 1

(* Program constants *)

\* page_width: int = 10
PageWidth == 10

\* page_size = 10
page_size == 10

\* query identifiers the service hands out
QueryIds == {"q1", "q2"}

Sessions == 1..NumSessions

----------------------------------------------------------------------------
(* Values *)

\* the ID list <<1, ..., n>>
IdList(n) == [i \in 1..n |-> i]

IsId(x) == x > 0

\* the listings a fetch of ids returns, one per requested ID
Hydrate(ids) == [i \in 1..Len(ids) |-> -ids[i]]

\* ceil(a / b) for a >= 0, b > 0
Ceil(a, b) == (a + b - 1) \div b

RECURSIVE Concat(_)
Concat(ss) == IF ss = <<>> THEN <<>> ELSE Head(ss) \o Concat(Tail(ss))

\* Python's seq[a:b] with 0 <= a <= b
Slice(s, a, b) ==
    LET hi == IF b < Len(s) THEN b ELSE Len(s)
    IN  IF a >= hi THEN <<>> ELSE [i \in 1..(hi - a) |-> s[a + i]]

----------------------------------------------------------------------------
(* TradeClient._build_pages *)

\* PageStep with a slip: the page opened on overflow starts empty, so r is lost
PageStepDrop(pages, page, r, w) ==
    IF Len(page) < w
    THEN [pages |-> pages, page |-> Append(page, r)]
    ELSE [pages |-> Append(pages, page), page |-> <<>>]

\* one iteration of `for r in all_results`
PageStep(pages, page, r, w) ==
    IF Len(page) < w
    THEN [pages |-> pages, page |-> Append(page, r)]
    ELSE [pages |-> Append(pages, page), page |-> <<r>>]

RECURSIVE PageLoop(_, _, _, _, _)
PageLoop(all_results, i, pages, page, w) ==
    IF i > Len(all_results)
    THEN [pages |-> pages, page |-> page]
    ELSE LET st == PageStep(pages, page, all_results[i], w)
         IN  PageLoop(all_results, i + 1, st.pages, st.page, w)

build_pages(all_results, page_width) ==
    IF Len(all_results) <= page_width
    THEN <<all_results>>
    ELSE LET st == PageLoop(all_results, 1, <<>>, <<>>, page_width)
         IN  IF st.page # <<>> THEN Append(st.pages, st.page) ELSE st.pages

----------------------------------------------------------------------------
(* Responses of the service, as _request and res.json() deliver them *)

NoBody == [kind |-> "none", hasResult |-> FALSE, hasId |-> FALSE, id |-> "", result |-> <<>>]

\* a status raise_for_status rejects
HttpError == [kind |-> "http_error", hasResult |-> FALSE, hasId |-> FALSE, id |-> "", result |-> <<>>]

\* a body res.json() cannot decode
NotJson == [kind |-> "not_json", hasResult |-> FALSE, hasId |-> FALSE, id |-> "", result |-> <<>>]

\* a decoded JSON object: which of the keys "result" and "id" it has, and their values
Body(hasResult, hasId, id, result) ==
    [kind |-> "json", hasResult |-> hasResult, hasId |-> hasId, id |-> id, result |-> result]

\* the object {"result": []} that _normal_search builds itself
EmptyResult == Body(TRUE, FALSE, "", <<>>)

\* what the search endpoint may answer
SearchResponses ==
    {HttpError, NotJson, Body(FALSE, FALSE, "", <<>>)}
    \cup {Body(FALSE, TRUE, q, <<>>) : q \in QueryIds}
    \cup {Body(TRUE, FALSE, "", IdList(n)) : n \in 0..MaxLen}
    \cup {Body(TRUE, TRUE, q, IdList(n)) : q \in QueryIds, n \in 0..MaxLen}

\* what the fetch endpoint may answer, as far as a consumer of items can tell:
\* a failure, an object without "result", or the listings of the requested IDs
FetchReplies(ids) ==
    {HttpError, NotJson, Body(FALSE, FALSE, "", <<>>), Body(TRUE, FALSE, "", Hydrate(ids))}

\* the answer to the fetch inside search() is handed to main, which inspects
\* its shape: every shape is offered there, also a search-shaped object
\* (an "id" and a list of IDs)
ShapedReplies(ids) ==
    FetchReplies(ids)
    \cup {Body(FALSE, TRUE, q, <<>>) : q \in QueryIds}
    \cup {Body(TRUE, TRUE, q, Hydrate(ids)) : q \in QueryIds}
    \cup {Body(TRUE, TRUE, q, IdList(n)) : q \in QueryIds, n \in 0..MaxLen}

\* Raised with a slip: a rejected status is not raised (raise_error off)
RaisedNoHttp(r) ==
    CASE r.kind = "not_json" -> "JSONDecodeError"
      [] OTHER -> ""

\* the exception _search / _fetch raise for a response, "" when they return
Raised(r) ==
    CASE r.kind = "http_error" -> "HTTPError"
      [] r.kind = "not_json" -> "JSONDecodeError"
      [] OTHER -> ""

----------------------------------------------------------------------------
(* Request Builder *)

\* ",".join(search_results) raises TypeError unless every element is a string
JoinRaises(search_results) == \E i \in 1..Len(search_results) : ~IsId(search_results[i])

\* config.url + "fetch/" + ",".join(search_results)
build_fetch_url(search_results) == [path |-> "fetch", ids |-> search_results]

\* a record of one request sent and the response it got, or of one
\* time.sleep (op "sleep", no response)
Sent(site, op, url_ids, query, r) ==
    [site |-> site, op |-> op, ids |-> url_ids, query |-> query, resp |-> r]

----------------------------------------------------------------------------
(* Initial values of the parts a specification does not run *)

PagerIdle ==
    /\ p_ids = <<>>
    /\ p_width = PageWidth
    /\ p_pages = <<>>
    /\ ppc = "idle"

MainIdle ==
    /\ pc = "idle"
    /\ ns_search_res = NoBody
    /\ paged_ids = <<>>
    /\ search_res = NoBody
    /\ query_id = ""
    /\ all_result_ids = <<>>
    /\ page_idx = 0
    /\ page_count = 0
    /\ all_items = <<>>
    /\ saved = <<>>
    /\ outcome = ""
    /\ log = <<>>

\* no frame
NoFrame == [kind |-> "none", new |-> FALSE, ids |-> <<>>]

\* no run of the message handler yet
NoRun == [session |-> 0, frame |-> NoFrame, fetches |-> <<>>, calls |-> <<>>, err |-> ""]

LiveIdle ==
    /\ lpc = [s \in Sessions |-> "idle"]
    /\ search_id = [s \in Sessions |-> ""]
    /\ fetch_callback = [s \in Sessions |-> FALSE]
    /\ issued = [s \in Sessions |-> ""]
    /\ last = NoRun
    /\ closed_by = [s \in Sessions |-> ""]

\* the empty dict
EmptyDict == [k \in {} |-> ""]

\* ClientConfig.default_headers as the client is configured
DefaultHeaders ==
    [k \in {"User-Agent", "Accept", "Content-Type"} |->
        IF k = "User-Agent" THEN "Mozilla/5.0"
        ELSE IF k = "Accept" THEN "*/*"
        ELSE "application/json"]

\* no body and no return value of whisper
NoValue == [status |-> "", kind |-> "none", error |-> "absent"]

\* no whisper call yet
NoWhisper == [resp |-> NoValue, ret |-> NoValue, err |-> ""]

CallIdle ==
    /\ default_headers = DefaultHeaders
    /\ extras_default = EmptyDict
    /\ built = <<>>
    /\ w_last = NoWhisper

ReqIdle ==
    /\ rpc = [s \in Sessions |-> "idle"]
    /\ nreq = [s \in Sessions |-> 0]
    /\ created = 0
    /\ sess_obj = 0
    /\ using = [s \in Sessions |-> 0]

StreamIdle ==
    /\ frames = <<>>
    /\ hst = <<>>
    /\ callbacks = <<>>
    /\ s_callback = FALSE

----------------------------------------------------------------------------
(* PagerSpec: _build_pages applied to every bounded input *)

PagerInit ==
    /\ p_ids \in {IdList(n) : n \in 0..MaxLen}
    /\ p_width \in 1..MaxWidth
    /\ p_pages = <<>>
    /\ ppc = "call"
    /\ sess = "None"
    /\ MainIdle
    /\ LiveIdle
    /\ CallIdle
    /\ ReqIdle
    /\ StreamIdle

BuildPagesCall ==
    /\ ppc = "call"
    /\ p_pages' = build_pages(p_ids, p_width)
    /\ ppc' = "ret"
    /\ UNCHANGED <<p_ids, p_width, sess, mainVars, liveVars, callVars, reqVars, streamVars>>

PagerNext == BuildPagesCall

PagerSpec == PagerInit /\ [][PagerNext]_vars

----------------------------------------------------------------------------
(* The pager's claims, under PagerSpec *)

\* C2: for every ID list of length L >= 0 and page width P > 0, _build_pages
\* returns exactly ceil(L/P) batches (zero batches for L = 0).
C2_BatchCount ==
    ppc = "ret" => Len(p_pages) = Ceil(Len(p_ids), p_width)

\* C3: no batch in the output of _build_pages is empty, for any input.
C3_NoEmptyBatch ==
    ppc = "ret" => \A i \in 1..Len(p_pages) : Len(p_pages[i]) >= 1

\* C4: the batches are an order-preserving partition of the input: their
\* concatenation is the input, every batch but the last has exactly P IDs,
\* and the last has 1..P IDs when the input is longer than P.
C4_Partition ==
    ppc = "ret" =>
        /\ Concat(p_pages) = p_ids
        /\ \A i \in 1..(Len(p_pages) - 1) : Len(p_pages[i]) = p_width
        /\ Len(p_ids) > p_width =>
              /\ Len(p_pages) >= 2
              /\ Len(p_pages[Len(p_pages)]) \in 1..p_width

\* C4's case: an input longer than two pages whose last page is partial
C4_Witness ==
    /\ ppc = "ret"
    /\ Len(p_ids) > 2 * p_width
    /\ Len(p_ids) % p_width # 0
    /\ Len(p_pages) >= 3

----------------------------------------------------------------------------
(* Spec: one run of app.py's main *)

Init ==
    /\ PagerIdle
    /\ sess = "None"
    /\ pc = "start"
    /\ ns_search_res = NoBody
    /\ paged_ids = <<>>
    /\ search_res = NoBody
    /\ query_id = ""
    /\ all_result_ids = <<>>
    /\ page_idx = 0
    /\ page_count = 0
    /\ all_items = <<>>
    /\ saved = <<>>
    /\ outcome = ""
    /\ log = <<>>
    /\ LiveIdle
    /\ CallIdle
    /\ ReqIdle
    /\ StreamIdle

\* main ends with an uncaught exception
MainRaises(exc) ==
    /\ pc' = "failed"
    /\ outcome' = exc
    /\ UNCHANGED <<search_res, query_id, all_result_ids, page_idx, page_count,
                   all_items, saved>>

\* main from the return of client.search to its first fetch or its return
MainAfterSearch(ret) ==
    /\ search_res' = ret
    /\ IF ~ret.hasResult \/ ret.result = <<>>
       THEN /\ pc' = "done"
            /\ outcome' = "no_items"
            /\ UNCHANGED <<query_id, all_result_ids, page_idx, page_count, all_items, saved>>
       ELSE IF ~ret.hasId
       THEN /\ pc' = "done"
            /\ outcome' = "fetch_shape"
            /\ UNCHANGED <<query_id, all_result_ids, page_idx, page_count, all_items, saved>>
       ELSE /\ query_id' = ret.id
            /\ all_result_ids' = ret.result
            /\ page_count' = Ceil(Len(ret.result), page_size)
            /\ all_items' = <<>>
            /\ page_idx' = 0
            /\ pc' = "loop"
            /\ UNCHANGED <<outcome, saved>>

\* main calls client.search; _normal_search runs up to its fetch
NormalSearch ==
    /\ pc = "start"
    /\ \E r \in SearchResponses :
          /\ sess' = "Session"
          /\ log' = Append(log, Sent("_normal_search", "search", <<>>, "", r))
          /\ IF Raised(r) # ""
             THEN /\ MainRaises(Raised(r))
                  /\ UNCHANGED <<ns_search_res, paged_ids>>
             ELSE IF ~r.hasResult
             THEN /\ MainAfterSearch(EmptyResult)
                  /\ UNCHANGED <<ns_search_res, paged_ids>>
             ELSE LET pages == build_pages(r.result, PageWidth)
                  IN  IF pages = <<>>
                      THEN /\ MainAfterSearch(EmptyResult)
                           /\ UNCHANGED <<ns_search_res, paged_ids>>
                      ELSE IF JoinRaises(pages[1])
                      THEN /\ MainRaises("TypeError")
                           /\ UNCHANGED <<ns_search_res, paged_ids>>
                      ELSE IF ~r.hasId
                      THEN /\ MainRaises("KeyError")
                           /\ UNCHANGED <<ns_search_res, paged_ids>>
                      ELSE /\ ns_search_res' = r
                           /\ paged_ids' = pages
                           /\ pc' = "first_fetch"
                           /\ UNCHANGED <<search_res, query_id, all_result_ids, page_idx,
                                          page_count, all_items, saved, outcome>>
    /\ UNCHANGED <<pagerVars, liveVars, callVars, reqVars, streamVars>>

\* _normal_search fetches its first page and returns the answer to main
NormalSearchFetch ==
    /\ pc = "first_fetch"
    /\ \E r \in ShapedReplies(paged_ids[1]) :
          /\ sess' = "Session"
          /\ log' = Append(log, Sent("_normal_search", "fetch",
                                     build_fetch_url(paged_ids[1]).ids, ns_search_res.id, r))
          /\ IF Raised(r) # ""
             THEN MainRaises(Raised(r))
             ELSE MainAfterSearch(r)
    /\ ns_search_res' = NoBody
    /\ paged_ids' = <<>>
    /\ UNCHANGED <<pagerVars, liveVars, callVars, reqVars, streamVars>>

\* Extended with a slip: the result replaces the accumulated items
ExtendedReplace(items, r) == r.result

\* all_items.extend(fetch_res["result"])
Extended(items, r) == items \o r.result

\* chunk = all_result_ids[page_idx*page_size : (page_idx+1)*page_size]
Chunk(idx) == Slice(all_result_ids, idx * page_size, (idx + 1) * page_size)

\* json.dump(all_items, f) after the loop
WriteFile(how) ==
    /\ saved' = all_items
    /\ outcome' = how
    /\ pc' = "done"

\* one iteration of main's loop up to time.sleep
MainLoopFetch ==
    /\ pc = "loop"
    /\ page_idx < page_count
    /\ LET chunk == Chunk(page_idx)
       IN  IF chunk = <<>>
           THEN /\ WriteFile("done")
                /\ UNCHANGED <<all_items, log, sess>>
           ELSE IF JoinRaises(chunk)
           THEN /\ pc' = "failed"
                /\ outcome' = "TypeError"
                /\ UNCHANGED <<all_items, saved, log, sess>>
           ELSE \E r \in FetchReplies(chunk) :
                  /\ sess' = "Session"
                  /\ log' = Append(log, Sent("main", "fetch",
                                             build_fetch_url(chunk).ids, query_id, r))
                  /\ IF Raised(r) # ""
                     THEN /\ pc' = "failed"
                          /\ outcome' = Raised(r)
                          /\ UNCHANGED <<all_items, saved>>
                     ELSE IF r.hasResult
                     THEN /\ all_items' = Extended(all_items, r)
                          /\ pc' = "sleep"
                          /\ UNCHANGED <<saved, outcome>>
                     ELSE /\ WriteFile("aborted")
                          /\ UNCHANGED all_items
    /\ UNCHANGED <<ns_search_res, paged_ids, search_res, query_id, all_result_ids,
                   page_idx, page_count>>
    /\ UNCHANGED <<pagerVars, liveVars, callVars, reqVars, streamVars>>

\* time.sleep(0.2), then the loop's next page_idx or its end
MainSleep ==
    /\ pc = "sleep"
    /\ IF page_idx + 1 < page_count
       THEN /\ page_idx' = page_idx + 1
            /\ pc' = "loop"
            /\ UNCHANGED <<saved, outcome>>
       ELSE /\ WriteFile("done")
            /\ UNCHANGED page_idx
    /\ log' = Append(log, Sent("main", "sleep", <<>>, "", NoBody))
    /\ UNCHANGED <<ns_search_res, paged_ids, search_res, query_id, all_result_ids,
                   page_count, all_items, sess>>
    /\ UNCHANGED <<pagerVars, liveVars, callVars, reqVars, streamVars>>

Next ==
    \/ NormalSearch
    \/ NormalSearchFetch
    \/ MainLoopFetch
    \/ MainSleep

Spec == Init /\ [][Next]_vars

----------------------------------------------------------------------------
(* The claims about the non-live search, under Spec *)

\* the requests of the run that went to the fetch endpoint, in order
FetchesSent == SelectSeq(log, LAMBDA e : e.op = "fetch")

\* the fetches of main's own loop
LoopFetches == SelectSeq(log, LAMBDA e : e.op = "fetch" /\ e.site = "main")

\* the response the search endpoint gave to this run
SearchAnswer == IF log = <<>> THEN NoBody ELSE log[1].resp

\* the run is over: main returned or raised
Terminated == pc \in {"done", "failed"}

\* every fetch of the run was answered with one listing per requested ID
AllHydrated ==
    \A i \in 1..Len(FetchesSent) :
        FetchesSent[i].resp = Body(TRUE, FALSE, "", Hydrate(FetchesSent[i].ids))

\* C1: a non-live search whose response carries an id and L > 0 IDs, every
\* fetch answered with one listing per requested ID, issues exactly
\* ceil(L/10) fetches over the consecutive batches of the ID list and hands
\* back all L listings.
C1_AllPagesFetched ==
    (/\ Terminated
     /\ SearchAnswer.kind = "json" /\ SearchAnswer.hasResult /\ SearchAnswer.hasId
     /\ Len(SearchAnswer.result) > 0
     /\ AllHydrated)
    => /\ Len(FetchesSent) = Ceil(Len(SearchAnswer.result), PageWidth)
       /\ \A j \in 1..Len(FetchesSent) :
              FetchesSent[j].ids =
                  Slice(SearchAnswer.result, (j - 1) * PageWidth, j * PageWidth)
       /\ search_res.result = Hydrate(SearchAnswer.result)

\* C5: when the search response lacks "result" or its result list is empty,
\* the search ends at once with zero items and no error, and no fetch
\* request is ever sent.
C5_EmptySearchNoFetch ==
    (/\ SearchAnswer.kind = "json"
     /\ ~SearchAnswer.hasResult \/ SearchAnswer.result = <<>>)
    => /\ FetchesSent = <<>>
       /\ pc = "done"
       /\ outcome = "no_items"
       /\ search_res = EmptyResult

\* C6: every fetch request sent carries at least 1 and at most 10 result IDs.
C6_FetchSizes ==
    \A i \in 1..Len(FetchesSent) :
        /\ Len(FetchesSent[i].ids) >= 1
        /\ Len(FetchesSent[i].ids) <= PageWidth

\* the state part of C9
C9_AbortedState ==
    outcome = "aborted" =>
        LET k == Len(LoopFetches)
        IN  /\ pc = "done"
            /\ k >= 1
            /\ LoopFetches[k].resp.kind = "json"
            /\ ~LoopFetches[k].resp.hasResult
            /\ \A j \in 1..k :
                  LoopFetches[j].ids =
                      Slice(all_result_ids, (j - 1) * page_size, j * page_size)
            /\ \A j \in 1..(k - 1) : LoopFetches[j].resp.hasResult
            /\ saved = Concat([j \in 1..(k - 1) |-> LoopFetches[j].resp.result])

\* C9: if the response to batch k of main's loop lacks "result", the run
\* stops as aborted: the items written are exactly those of batches 1..k-1,
\* in order, and no request is sent afterwards.
C9_AbortKeepsPrefix ==
    /\ []C9_AbortedState
    /\ [][outcome = "aborted" => (log' = log /\ saved' = saved /\ outcome' = outcome)]_vars

\* C9's case: the second of three batches lacks "result"
C9_Witness ==
    /\ outcome = "aborted"
    /\ page_count = 3
    /\ Len(LoopFetches) = 2
    /\ saved = Hydrate(Slice(all_result_ids, 0, page_size))
    /\ Len(saved) = page_size

----------------------------------------------------------------------------
(* LiveSpec: live sessions running concurrently on one client *)

\* An inbound text frame: what json.loads makes of it (kind), whether the
\* value contains "new" in the sense of Python's `in` (a key of an object,
\* an element of an array, a substring of a string), and the ID list under
\* the key "new" of an object.
Frame(kind, new, ids) == [kind |-> kind, new |-> new, ids |-> ids]

Frames ==
    {Frame("text", FALSE, <<>>)}
    \cup {Frame("object", TRUE, IdList(n)) : n \in 0..MaxNew}
    \cup {Frame("object", FALSE, <<>>)}
    \cup {Frame(k, b, <<>>) : k \in {"array", "string"}, b \in BOOLEAN}
    \cup {Frame(k, FALSE, <<>>) : k \in {"number", "null"}}

\* json.loads(msg) raises JSONDecodeError
LoadsRaises(f) == f.kind = "text"

\* `"new" in msg_data` raises TypeError: the value is not a container
InRaises(f) == f.kind \in {"number", "null"}

\* msg_data["new"] raises TypeError: the value is a list or a string
IndexRaises(f) == f.kind # "object"

\* HandlerSearchId with a slip: the identifier is shared by the client's
\* sessions, so a handler may send the one another session's search returned
HandlerSearchIdShared(s) ==
    IF \E t \in Sessions : t # s /\ search_id[t] # ""
    THEN search_id[CHOOSE t \in Sessions : t # s /\ search_id[t] # ""]
    ELSE search_id[s]

\* the query identifier the handler of session s sends: search_id, bound
\* when _build_ws_message_handler built the closure
HandlerSearchId(s) == search_id[s]

\* what one run of the handler did: the fetches it sent, the calls of the
\* callback it made, the exception that left it ("" when it returned)
Run(s, f, fetches, calls, err) ==
    [session |-> s, frame |-> f, fetches |-> fetches, calls |-> calls, err |-> err]

\* one run of on_message for frame f in session s; r answers its fetch
OnMessageRun(s, f, r) ==
    IF LoadsRaises(f)
    THEN Run(s, f, <<>>, <<>>, "")
    ELSE IF InRaises(f)
    THEN Run(s, f, <<>>, <<>>, "TypeError")
    ELSE IF ~f.new
    THEN Run(s, f, <<>>, <<>>, "")
    ELSE IF IndexRaises(f) \/ JoinRaises(f.ids)
    THEN Run(s, f, <<>>, <<>>, "TypeError")
    ELSE LET req == [query |-> HandlerSearchId(s),
                     ids |-> build_fetch_url(f.ids).ids, resp |-> r]
         IN  IF Raised(r) # ""
             THEN Run(s, f, <<req>>, <<>>, Raised(r))
             ELSE Run(s, f, <<req>>, IF fetch_callback[s] THEN <<r>> ELSE <<>>, "")

\* the handler sends a fetch for f
Fetches(f) == ~LoadsRaises(f) /\ ~InRaises(f) /\ f.new /\ ~IndexRaises(f) /\ ~JoinRaises(f.ids)

LiveInit ==
    /\ PagerIdle
    /\ MainIdle
    /\ sess = "None"
    /\ lpc = [s \in Sessions |-> "start"]
    /\ search_id = [s \in Sessions |-> ""]
    /\ fetch_callback \in [Sessions -> BOOLEAN]
    /\ issued = [s \in Sessions |-> ""]
    /\ last = NoRun
    /\ closed_by = [s \in Sessions |-> ""]
    /\ CallIdle
    /\ ReqIdle
    /\ StreamIdle

\* _live_search up to wsapp.run_forever()
LiveStart(s) ==
    /\ lpc[s] = "start"
    /\ \E r \in SearchResponses :
          /\ sess' = "Session"
          /\ issued' = [issued EXCEPT ![s] = IF r.hasId THEN r.id ELSE ""]
          /\ IF Raised(r) # ""
             THEN /\ lpc' = [lpc EXCEPT ![s] = "failed"]
                  /\ last' = Run(s, NoFrame, <<>>, <<>>, Raised(r))
                  /\ UNCHANGED search_id
             ELSE IF ~r.hasId
             THEN /\ lpc' = [lpc EXCEPT ![s] = "failed"]
                  /\ last' = Run(s, NoFrame, <<>>, <<>>, "KeyError")
                  /\ UNCHANGED search_id
             ELSE /\ search_id' = [search_id EXCEPT ![s] = r.id]
                  /\ lpc' = [lpc EXCEPT ![s] = "streaming"]
                  /\ UNCHANGED last
    /\ UNCHANGED <<fetch_callback, closed_by, pagerVars, mainVars, callVars, reqVars, streamVars>>

\* the stream delivers a frame and on_message runs for it
OnMessage(s) ==
    /\ lpc[s] = "streaming"
    /\ \E f \in Frames :
          IF Fetches(f)
          THEN \E r \in FetchReplies(f.ids) :
                  /\ last' = OnMessageRun(s, f, r)
                  /\ sess' = "Session"
          ELSE /\ last' = OnMessageRun(s, f, NoBody)
               /\ UNCHANGED sess
    /\ UNCHANGED <<lpc, search_id, fetch_callback, issued, closed_by, pagerVars, mainVars, callVars, reqVars, streamVars>>

\* the connection ends, closed by the service or dropped: run_forever
\* returns, its value is not looked at, and search returns None
StreamClosed(s) ==
    /\ lpc[s] = "streaming"
    /\ \E how \in {"close", "drop"} : closed_by' = [closed_by EXCEPT ![s] = how]
    /\ lpc' = [lpc EXCEPT ![s] = "returned"]
    /\ UNCHANGED <<last, search_id, fetch_callback, issued, sess, pagerVars, mainVars, callVars, reqVars, streamVars>>

LiveNext ==
    \E s \in Sessions :
        \/ LiveStart(s)
        \/ OnMessage(s)
        \/ StreamClosed(s)

LiveSpec == LiveInit /\ [][LiveNext]_vars

\* a client that serves one run of main, or live sessions
ClientInit == Init \/ LiveInit

ClientNext == Next \/ LiveNext

ClientSpec == ClientInit /\ [][ClientNext]_vars

----------------------------------------------------------------------------
(* The claims about live sessions, under LiveSpec *)

\* the latest event was a run of a message handler
HandlerRan == last.frame.kind # "none"

\* the frame is a JSON object with a "new" field
CarriesNew(f) == f.kind = "object" /\ f.new

\* C7: the message handler issues exactly one fetch per frame that carries a
\* "new" field, for that frame's ID list, and calls the callback once with
\* that fetch's result; any other frame (not JSON, an object without "new",
\* a JSON value that is no object) causes no fetch, no callback call and no
\* error leaving the handler.
C7_OneFetchPerNewFrame ==
    HandlerRan =>
        IF CarriesNew(last.frame)
        THEN /\ Len(last.fetches) = 1
             /\ last.fetches[1].ids = last.frame.ids
             /\ (Raised(last.fetches[1].resp) = "" /\ fetch_callback[last.session])
                   => last.calls = <<last.fetches[1].resp>>
        ELSE /\ last.fetches = <<>>
             /\ last.calls = <<>>
             /\ last.err = ""

\* C8: when the fetch a notification triggers fails with an HTTP error, the
\* callback is not called for it and no error leaves the message handler.
C8_FetchFailureContained ==
    (/\ HandlerRan
     /\ last.fetches # <<>>
     /\ last.fetches[1].resp.kind = "http_error")
    => /\ last.calls = <<>>
       /\ last.err = ""

\* the response that supplied the IDs of the i-th request of main's run: the
\* search response for the fetch inside search(), the value search() returned
\* (the answer to that fetch) for the fetches of main's loop
SourceOf(i) == IF log[i].site = "main" THEN log[2].resp ELSE log[1].resp

\* C10: every fetch request carries the query identifier returned together
\* with the IDs it fetches: a live session's notification fetches carry that
\* session's own initial search id, whatever other sessions of the same
\* client have searched before or after, and the fetches of a non-live
\* search carry the id of the response their IDs came from.
C10_OwnSearchId ==
    /\ \A i \in 1..Len(last.fetches) :
          /\ last.fetches[i].query = issued[last.session]
          /\ last.fetches[i].query \in QueryIds
    /\ \A i \in 1..Len(log) :
          log[i].op = "fetch" =>
              /\ SourceOf(i).hasId
              /\ log[i].query = SourceOf(i).id
              /\ \E j \in 0..MaxLen :
                    log[i].ids = Slice(SourceOf(i).result, j * PageWidth, (j + 1) * PageWidth)

\* C10's case: session 1 fetches for a notification while session 2 streams
\* under a different identifier
C10_Witness ==
    /\ last.session = 1
    /\ last.fetches # <<>>
    /\ lpc[2] = "streaming"
    /\ search_id[2] \in QueryIds
    /\ search_id[2] # search_id[1]

----------------------------------------------------------------------------
(* The claims about failures of the first search, under ClientSpec *)

\* the state part of C11
C11_FailedState ==
    /\ (log # <<>> /\ log[1].resp.kind = "http_error") =>
          /\ pc = "failed"
          /\ outcome = "HTTPError"
          /\ Len(log) = 1
          /\ search_res = NoBody
          /\ all_items = <<>>
          /\ saved = <<>>
    /\ (last.frame = NoFrame /\ last.err = "HTTPError") =>
          /\ lpc[last.session] = "failed"
          /\ search_id[last.session] = ""

\* C11: when the initial search call fails with an HTTP error the operation
\* ends with that error and nothing follows: a non-live search sends no
\* fetch and returns no result, a live search opens no stream and its
\* message handler never runs.
C11_SearchFailureIsFinal ==
    /\ []C11_FailedState
    /\ [][\A s \in Sessions :
            lpc[s] = "failed" =>
                /\ lpc'[s] = "failed"
                /\ search_id'[s] = ""
                /\ (last' # last => last'.session # s)]_vars

\* C11's case: main's search was answered with an HTTP error
C11_Witness ==
    /\ pc = "failed"
    /\ outcome = "HTTPError"
    /\ log # <<>>
    /\ log[1].resp.kind = "http_error"

----------------------------------------------------------------------------
(* CallSpec: a sequence of calls on one client, with the headers each      *)
(* request is sent with, and the outcome of whisper                        *)

\* longest sequence of header builds followed
MaxCalls == 3

\* f"POESESSID={self.config.poesessid}"
SessionCookie == "POESESSID=sid"

\* the extras whisper passes
WhisperExtras == [k \in {"X-Requested-With"} |-> "XMLHttpRequest"]

\* the extras _build_headers is called with
ExtrasChoices ==
    { EmptyDict,
      WhisperExtras,
      [k \in {"Cookie"} |-> "POESESSID=other"],
      [k \in {"Accept"} |-> "text/html"] }

\* {**a, **b}
Merge(a, b) ==
    [k \in (DOMAIN a) \cup (DOMAIN b) |-> IF k \in DOMAIN b THEN b[k] ELSE a[k]]

\* _build_headers' return value
build_headers(defaults, extras) ==
    LET h == Merge(defaults, extras)
    IN  [k \in (DOMAIN h) \cup {"Cookie"} |->
            IF k = "Cookie" THEN SessionCookie ELSE h[k]]

\* a slip of _build_headers: the extras are merged into the stored defaults
DefaultsAfterBuildUpdated(defaults, extras) == Merge(defaults, extras)

\* config.default_headers after _build_headers: the merge builds a new dict
DefaultsAfterBuild(defaults, extras) == defaults

\* one header build: the caller, the extras it passed, the headers it got
Built(op, extras, headers) == [op |-> op, extras |-> extras, headers |-> headers]

\* _build_headers(extras) called by op
BuildHeadersBy(op, extras) ==
    /\ built' = Append(built, Built(op, extras, build_headers(default_headers, extras)))
    /\ default_headers' = DefaultsAfterBuild(default_headers, extras)
    /\ UNCHANGED extras_default

\* the service's answer to a whisper: status, the kind of body, and where
\* "error" is in it
WhisperResponse(status, kind, error) == [status |-> status, kind |-> kind, error |-> error]

WhisperResponses ==
    { WhisperResponse(st, "text", "absent") : st \in {"2xx", "non-2xx"} }
    \cup { WhisperResponse(st, "object", e) :
             st \in {"2xx", "non-2xx"},
             e \in {"absent", "with_message", "without_message", "not_object"} }
    \cup { WhisperResponse(st, k, e) :
             st \in {"2xx", "non-2xx"}, k \in {"array", "string"},
             e \in {"absent", "member"} }
    \cup { WhisperResponse(st, k, "absent") :
             st \in {"2xx", "non-2xx"}, k \in {"number", "null"} }

\* what _whisper returns: the body, or the error object it makes of a body
\* that is not JSON
WhisperJson(resp) ==
    IF resp.kind = "text"
    THEN WhisperResponse(resp.status, "object", "with_message")
    ELSE resp

\* the exception of `if "error" in r: ... r['error']['message']`, "" if none
WhisperRaises(r) ==
    IF r.kind \in {"number", "null"} THEN "TypeError"
    ELSE IF r.kind \in {"array", "string"}
         THEN IF r.error = "member" THEN "TypeError" ELSE ""
    ELSE IF r.error = "without_message" THEN "KeyError"
    ELSE IF r.error = "not_object" THEN "TypeError"
    ELSE ""

\* the outcome of whisper(listing) when the service answers resp
WhisperOutcome(resp) ==
    LET r == WhisperJson(resp)
        exc == WhisperRaises(r)
    IN  [resp |-> resp, ret |-> IF exc = "" THEN r ELSE NoValue, err |-> exc]

CallInit ==
    /\ PagerIdle
    /\ MainIdle
    /\ LiveIdle
    /\ sess = "None"
    /\ CallIdle
    /\ ReqIdle
    /\ StreamIdle

\* _search, _fetch, or the socket of _live_search: default extras
CallPlain ==
    /\ Len(built) < MaxCalls
    /\ \E op \in {"_search", "_fetch", "_live_search"} :
           BuildHeadersBy(op, extras_default)
    /\ sess' = "Session"
    /\ UNCHANGED <<w_last, pagerVars, mainVars, liveVars, reqVars, streamVars>>

\* whisper(listing)
CallWhisper ==
    /\ Len(built) < MaxCalls
    /\ BuildHeadersBy("_whisper", WhisperExtras)
    /\ sess' = "Session"
    /\ \E resp \in WhisperResponses : w_last' = WhisperOutcome(resp)
    /\ UNCHANGED <<pagerVars, mainVars, liveVars, reqVars, streamVars>>

\* _build_headers(extras)
CallBuildHeaders ==
    /\ Len(built) < MaxCalls
    /\ \E extras \in ExtrasChoices : BuildHeadersBy("_build_headers", extras)
    /\ UNCHANGED <<sess, w_last, pagerVars, mainVars, liveVars, reqVars, streamVars>>

CallNext == CallPlain \/ CallWhisper \/ CallBuildHeaders

CallSpec == CallInit /\ [][CallNext]_vars

----------------------------------------------------------------------------
(* whisper's claim, under CallSpec *)

WhisperCalled == w_last.resp.kind # "none"

\* C12: whisper never raises for any response of the service: for every HTTP
\* status and every body (not JSON, {success:true}, an error object with or
\* without a message, any other JSON value) it returns an outcome value.
C12_WhisperNeverRaises ==
    WhisperCalled => (w_last.err = "" /\ w_last.ret # NoValue)

----------------------------------------------------------------------------
(* The end of a live stream, under LiveSpec *)

\* what the caller of search(live) has in hand for session s: "returned"
\* is the None search returns, "failed" an exception out of search
SearchOutcome(s) == IF lpc[s] \in {"returned", "failed"} THEN lpc[s] ELSE ""

\* C13: when the live stream's connection is dropped, the live search
\* terminates without reconnecting, and the caller of search gets a terminal
\* failure: an outcome that differs from that of a session that never failed.
C13_DropSurfaced ==
    \A s \in Sessions :
        closed_by[s] = "drop" =>
            /\ lpc[s] # "streaming"
            /\ SearchOutcome(s) # ""
            /\ \A t \in Sessions :
                  closed_by[t] = "close" => SearchOutcome(s) # SearchOutcome(t)

----------------------------------------------------------------------------
(* The classification of a search response, under Spec *)

\* the body the search endpoint answered in this run, NoBody before that
SearchBody == IF log # <<>> /\ log[1].op = "search" THEN log[1].resp ELSE NoBody

\* C14: a response is classified by field presence: without "result" it is
\* malformed, with "result" and "id" it is a search result, with "result"
\* and no "id" it is a fetch result; every consumer of a search response
\* follows this for every body shape without raising, and a body with
\* "result" and no "id" is taken as items: no id is looked up in it and
\* nothing is fetched for it.
C14_TotalClassification ==
    SearchBody.kind = "json" =>
        /\ outcome # "KeyError"
        /\ ~SearchBody.hasResult => (pc = "done" /\ outcome = "no_items" /\ Len(log) = 1)
        /\ (SearchBody.hasResult /\ ~SearchBody.hasId) =>
               \A i \in 1..Len(log) : log[i].op # "fetch"

----------------------------------------------------------------------------
(* RequestSpec: live sessions running in parallel threads on one client,   *)
(* each calling _request (for its search, then for its handler's fetches); *)
(* the steps of _request interleave                                        *)

\* requests followed per session
MaxRequests == 2

RequestInit ==
    /\ PagerIdle
    /\ MainIdle
    /\ LiveIdle
    /\ CallIdle
    /\ sess = "None"
    /\ ReqIdle
    /\ StreamIdle

\* `if not self._sess:` read by session s
RequestCheck(s) ==
    /\ rpc[s] = "idle"
    /\ nreq[s] < MaxRequests
    /\ rpc' = [rpc EXCEPT ![s] = IF sess_obj = 0 THEN "create" ELSE "send"]
    /\ UNCHANGED <<nreq, created, sess_obj, using, sess,
                   pagerVars, mainVars, liveVars, callVars, streamVars>>

\* `self._sess = requests.Session()`
RequestCreate(s) ==
    /\ rpc[s] = "create"
    /\ created' = created + 1
    /\ sess_obj' = created + 1
    /\ sess' = "Session"
    /\ rpc' = [rpc EXCEPT ![s] = "send"]
    /\ UNCHANGED <<nreq, using, pagerVars, mainVars, liveVars, callVars, streamVars>>

\* `res = self._sess.send(...)` starts: the request goes through the object
\* self._sess refers to now
RequestSend(s) ==
    /\ rpc[s] = "send"
    /\ using' = [using EXCEPT ![s] = sess_obj]
    /\ rpc' = [rpc EXCEPT ![s] = "sending"]
    /\ UNCHANGED <<nreq, created, sess_obj, sess,
                   pagerVars, mainVars, liveVars, callVars, streamVars>>

\* the response arrives and _request returns
RequestReturn(s) ==
    /\ rpc[s] = "sending"
    /\ using' = [using EXCEPT ![s] = 0]
    /\ nreq' = [nreq EXCEPT ![s] = nreq[s] + 1]
    /\ rpc' = [rpc EXCEPT ![s] = "idle"]
    /\ UNCHANGED <<created, sess_obj, sess,
                   pagerVars, mainVars, liveVars, callVars, streamVars>>

RequestNext ==
    \E s \in Sessions :
        \/ RequestCheck(s)
        \/ RequestCreate(s)
        \/ RequestSend(s)
        \/ RequestReturn(s)

RequestSpec == RequestInit /\ [][RequestNext]_vars

----------------------------------------------------------------------------
(* The transport session's claim, under RequestSpec *)

\* C15: the transport session object is never used by two live sessions at
\* once: each session's requests go through its own Session object, and the
\* lazy creation cannot race: at most one Session object is ever created
\* per client, under any interleaving of concurrent first requests.
C15_SessionNotShared ==
    /\ created <= 1
    /\ \A s, t \in Sessions :
          (s # t /\ using[s] # 0) => using[s] # using[t]

----------------------------------------------------------------------------
(* StreamSpec: one live stream. Frames arrive on the socket at any time;   *)
(* wsapp.run_forever() hands them to on_message in arrival order, and      *)
(* on_message is a plain function: it sends its fetch, waits for the       *)
(* answer and calls the callback before it returns                         *)

\* frames followed on one stream
MaxFrames == 3

\* the frames the stream delivers: text that is not JSON, and JSON objects
StreamFrames == {f \in Frames : f.kind \in {"text", "object"}}

\* the handler of frame i is running
Running(i) == hst[i] \in {"fetching", "callback"}

\* LoopBlocked with a slip: each frame is handed to a handler of its own
\* that runs beside the loop
LoopBlockedNever == FALSE

\* run_forever is inside a call of on_message and reads no further frame
LoopBlocked == \E i \in 1..Len(hst) : Running(i)

StreamInit ==
    /\ PagerIdle
    /\ MainIdle
    /\ LiveIdle
    /\ CallIdle
    /\ ReqIdle
    /\ sess = "None"
    /\ frames = <<>>
    /\ hst = <<>>
    /\ callbacks = <<>>
    /\ s_callback \in BOOLEAN

\* the service sends a frame
FrameArrives ==
    /\ Len(frames) < MaxFrames
    /\ \E f \in StreamFrames : frames' = Append(frames, f)
    /\ hst' = Append(hst, "waiting")
    /\ UNCHANGED <<callbacks, s_callback, sess,
                   pagerVars, mainVars, liveVars, callVars, reqVars>>

\* run_forever calls on_message for the oldest frame not yet handled; the
\* handler runs up to the sending of its fetch, or returns without one
Dispatch ==
    /\ ~LoopBlocked
    /\ \E i \in 1..Len(frames) :
          /\ hst[i] = "waiting"
          /\ \A j \in 1..(i - 1) : hst[j] # "waiting"
          /\ IF Fetches(frames[i])
             THEN /\ hst' = [hst EXCEPT ![i] = "fetching"]
                  /\ sess' = "Session"
             ELSE /\ hst' = [hst EXCEPT ![i] = "done"]
                  /\ UNCHANGED sess
    /\ UNCHANGED <<frames, callbacks, s_callback,
                   pagerVars, mainVars, liveVars, callVars, reqVars>>

\* the fetch of frame i is answered: _fetch raises, or returns and the
\* handler goes on to its callback, or returns having none
FetchAnswered(i) ==
    /\ i <= Len(hst)
    /\ hst[i] = "fetching"
    /\ \E r \in FetchReplies(frames[i].ids) :
          hst' = [hst EXCEPT ![i] =
                     IF Raised(r) = "" /\ s_callback THEN "callback" ELSE "done"]
    /\ UNCHANGED <<frames, callbacks, s_callback, sess,
                   pagerVars, mainVars, liveVars, callVars, reqVars>>

\* fetch_callback(fetch_res) runs and on_message returns
CallbackRuns(i) ==
    /\ i <= Len(hst)
    /\ hst[i] = "callback"
    /\ callbacks' = Append(callbacks, i)
    /\ hst' = [hst EXCEPT ![i] = "done"]
    /\ UNCHANGED <<frames, s_callback, sess,
                   pagerVars, mainVars, liveVars, callVars, reqVars>>

StreamNext ==
    \/ FrameArrives
    \/ Dispatch
    \/ \E i \in 1..MaxFrames :
          \/ FetchAnswered(i)
          \/ CallbackRuns(i)

StreamSpec == StreamInit /\ [][StreamNext]_vars

----------------------------------------------------------------------------
(* The stream's ordering claim, under StreamSpec *)

\* C16: within one live stream, notifications are handled one at a time in
\* arrival order: the fetch and the callback for frame i both complete
\* before any processing of frame i+1 starts, so two fetches of the stream
\* never overlap and callbacks fire in the order their frames arrived.
C16_OneAtATime ==
    /\ \A i, j \in 1..Len(hst) :
          (i < j /\ hst[j] # "waiting") => hst[i] = "done"
    /\ \A i, j \in 1..Len(hst) :
          (Running(i) /\ Running(j)) => i = j
    /\ \A a, b \in 1..Len(callbacks) :
          a < b => callbacks[a] < callbacks[b]

\* C16's case: the callback of an earlier frame has fired, the fetch of the
\* next frame is in flight, and the frame after it has already arrived
C16_Witness ==
    /\ callbacks # <<>>
    /\ \E i \in 1..(Len(hst) - 1) :
          /\ hst[i] = "fetching"
          /\ hst[i + 1] = "waiting"
          /\ callbacks[Len(callbacks)] < i

----------------------------------------------------------------------------
(* The header builder's claim, under CallSpec *)

\* the keys of the configured defaults and the cookie
OwnKeys == (DOMAIN DefaultHeaders) \cup {"Cookie"}

\* C17: building request headers has no effect on stored state: after any
\* sequence of search, fetch, whisper and live calls the configured default
\* header map is unchanged, per-call extras appear only in the request they
\* were passed for and never in a later one, and every request's headers
\* contain the session cookie, which per-call extras cannot replace.
C17_HeadersFrameEffect ==
    /\ default_headers = DefaultHeaders
    /\ extras_default = EmptyDict
    /\ \A i \in 1..Len(built) :
          LET b == built[i]
          IN  /\ "Cookie" \in DOMAIN b.headers
              /\ b.headers["Cookie"] = SessionCookie
              /\ \A k \in (DOMAIN b.headers) \ {"Cookie"} :
                    IF k \in DOMAIN b.extras
                    THEN b.headers[k] = b.extras[k]
                    ELSE k \in DOMAIN DefaultHeaders /\ b.headers[k] = DefaultHeaders[k]
              /\ (DOMAIN b.extras) \cup OwnKeys = DOMAIN b.headers

\* C17's case: a whisper with its extra header, a build whose extras name
\* the cookie, and a plain request after both
C17_Witness ==
    /\ Len(built) >= 3
    /\ \E i, j, k \in 1..Len(built) :
          /\ i < k /\ j < k
          /\ built[i].op = "_whisper"
          /\ "X-Requested-With" \in DOMAIN built[i].headers
          /\ "Cookie" \in DOMAIN built[j].extras
          /\ built[k].op \in {"_search", "_fetch", "_live_search"}
          /\ "X-Requested-With" \notin DOMAIN built[k].headers

----------------------------------------------------------------------------
(* The order and pacing of the fetches of one run, under Spec *)

\* the IDs main pages through: the result list of the answer search returned
\* to it, <<>> before main has it
PagedIds == all_result_ids

\* C18: within one search, fetch batches are requested strictly sequentially
\* in the order produced by the pager: batch i+1 is requested only after the
\* response to batch i has been received and accepted, each batch at most
\* once; and a pacing delay step occurs between every two consecutive fetch
\* calls.
C18_SequentialPaced ==
    /\ \A n \in 1..Len(LoopFetches) :
          /\ n <= Len(build_pages(PagedIds, PageWidth))
          /\ LoopFetches[n].ids = build_pages(PagedIds, PageWidth)[n]
          /\ n < Len(LoopFetches) =>
                (Raised(LoopFetches[n].resp) = "" /\ LoopFetches[n].resp.hasResult)
    /\ \A i, j \in 1..Len(log) :
          (i < j /\ log[i].op = "fetch" /\ log[j].op = "fetch") =>
              \E k \in (i + 1)..(j - 1) : log[k].op = "sleep"

----------------------------------------------------------------------------
(* The requests one run may cost, under Spec *)

SearchesSent == SelectSeq(log, LAMBDA e : e.op = "search")

\* C19: a non-live search with L result IDs reaches a terminal outcome (done,
\* aborted or failed) after at most one search call and at most ceil(L/10)
\* fetch calls; once the outcome is reached no further request is sent and
\* the accumulated item list no longer changes. The state part: at every
\* point of the run, terminal or not, the calls sent are within these limits.
C19_BoundedRequests ==
    /\ Len(SearchesSent) <= 1
    /\ (SearchAnswer.kind = "json" /\ SearchAnswer.hasResult) =>
          Len(FetchesSent) <= Ceil(Len(SearchAnswer.result), page_size)
    /\ (SearchAnswer.kind # "json" \/ ~SearchAnswer.hasResult) => FetchesSent = <<>>

====
